---------------------------- MODULE Spec2Model ----------------------------
(***************************************************************************)
(* The shopping-list / counter walkthrough: the reducer variants, the      *)
(* store built from them by createStore, the entry points that mount a     *)
(* view, and the view variants with their click handlers.                  *)
(*                                                                         *)
(* JavaScript values live on a heap so that "the same object" (===) and    *)
(* "a new object" are different things: a state is a reference to an       *)
(* object cell whose items property is a reference to an array cell.       *)
(***************************************************************************)
EXTENDS Integers, Sequences, FiniteSets, TLC

\* ------------------------------------------------------------------ bounds
\* Longest items array among the input states a reducer is applied to.
MaxLen == 2
\* Largest integer held in an input items array (elements range over 0..MaxItem).
MaxItem == 2
\* Largest payload carried by an input action (0 stands for "no payload field").
MaxPayload == 1
\* Most dispatches made on one store by a caller of store.dispatch, and most
\* calls of a reducer made in a row.
MaxDispatch == 3
\* Most button clicks in one run of the application.
MaxClicks == 3

\* --------------------------------------------------------------- JS values
Undefined == [t |-> "undefined", v |-> 0]
Num(n) == [t |-> "number", v |-> n]
Ref(a) == [t |-> "ref", v |-> a]
\* The value of an expression whose evaluation raised a TypeError.
Thrown == [t |-> "throw", v |-> 0]
\* A property slot that the object does not have.
Absent == [t |-> "absent", v |-> 0]

\* Property names an object may carry: the state's own key and one foreign key.
Keys == {"items", "other"}
NoProps == [k \in Keys |-> Absent]

ObjectCell(props) == [kind |-> "object", props |-> props, elems |-> <<>>]
ArrayCell(elems) == [kind |-> "array", props |-> NoProps, elems |-> elems]

IsRef(h, val) == val.t = "ref" /\ val.v \in 1..Len(h)
IsArray(h, val) == IsRef(h, val) /\ h[val.v].kind = "array"
IsObject(h, val) == IsRef(h, val) /\ h[val.v].kind = "object"

\* val[key] for key in Keys: a read of undefined throws, an object yields its
\* slot (undefined when it has none), an array or a number has no such key.
GetProp(h, val, key) ==
    IF val.t \in {"undefined", "throw"} THEN Thrown
    ELSE IF IsObject(h, val)
         THEN IF h[val.v].props[key] = Absent THEN Undefined
              ELSE h[val.v].props[key]
         ELSE Undefined

\* val.length: the element count of an array, undefined for anything else that
\* can be read, a TypeError for undefined.
GetLength(h, val) ==
    IF val.t \in {"undefined", "throw"} THEN Thrown
    ELSE IF IsArray(h, val) THEN Num(Len(h[val.v].elems))
         ELSE Undefined

\* The own enumerable properties that {...val} or Object.assign copy.
OwnProps(h, val) == IF IsObject(h, val) THEN h[val.v].props ELSE NoProps

\* ------------------------------------------------------------------ actions
CountIncrement == "count/increment"
IncreaseCount == "INCREASE_COUNT"
GetCountOfItems == "GET_COUNT_OF_ITEMS"
Noop == "NOOP"
\* The action createStore dispatches to obtain the initial state.
ReduxInit == "@@redux/INIT"

ActionTypes == {CountIncrement, IncreaseCount, GetCountOfItems, Noop}
Action(type, payload) == [type |-> type, payload |-> payload]
Actions == {Action(ty, p) : ty \in ActionTypes, p \in 0..MaxPayload}
NoAction == Action("", 0)

\* ------------------------------------------------------------------ console
LogAction(action) == [msg |-> "%o", n |-> Undefined, action |-> action]
LogLength(msg, n) == [msg |-> msg, n |-> n, action |-> NoAction]

\* --------------------------------------------------------- reducer outcomes
\* What a call leaves behind: whether it threw, the value returned, the heap
\* after the call, the lines written to the console.
Returned(h, ret, log) == [threw |-> FALSE, ret |-> ret, heap |-> h, log |-> log]
Raised(h, log) == [threw |-> TRUE, ret |-> Undefined, heap |-> h, log |-> log]


\* n + 1 as JavaScript computes it: a number for a number, NaN otherwise.
AddOne(val) ==
    IF val.t = "throw" THEN Thrown
    ELSE IF val.t = "number" THEN Num(val.v + 1)
         ELSE [t |-> "NaN", v |-> 0]

\* state.items.length
ItemsLength(h, state) == GetLength(h, GetProp(h, state, "items"))

\* ConcatNext as it would be if the new element were taken from the last
\* element (last + 1, or 1 for an empty array) instead of from the length.
ConcatNextLast(h, state) ==
    LET items == GetProp(h, state, "items")
    IN IF ~IsArray(h, items)
       THEN [threw |-> TRUE, heap |-> h, val |-> Thrown]
       ELSE LET elems == h[items.v].elems
                next == IF elems = <<>> THEN 1 ELSE elems[Len(elems)] + 1
                h1 == Append(h, ArrayCell(Append(elems, next)))
            IN [threw |-> FALSE, heap |-> h1, val |-> Ref(Len(h1))]

\* ConcatNext as it would be with state.items.push(state.items.length + 1)
\* followed by the use of state.items: the element is added to the array
\* state.items refers to, and no array is allocated.
ConcatNextPush(h, state) ==
    LET items == GetProp(h, state, "items")
    IN IF ~IsArray(h, items)
       THEN [threw |-> TRUE, heap |-> h, val |-> Thrown]
       ELSE LET elems == h[items.v].elems
            IN [threw |-> FALSE,
                heap |-> [h EXCEPT ![items.v] = ArrayCell(Append(elems, Len(elems) + 1))],
                val |-> items]

\* state.items.concat(state.items.length + 1): a TypeError unless state.items
\* is an array; otherwise a NEW array cell, the old elements followed by the
\* old length + 1. The array state.items refers to is left as it was.
ConcatNext(h, state) ==
    LET items == GetProp(h, state, "items")
    IN IF ~IsArray(h, items)
       THEN [threw |-> TRUE, heap |-> h, val |-> Thrown]
       ELSE LET elems == h[items.v].elems
                h1 == Append(h, ArrayCell(Append(elems, Len(elems) + 1)))
            IN [threw |-> FALSE, heap |-> h1, val |-> Ref(Len(h1))]

\* SpreadWithItems as it would be without the spread,
\* { items: state.items.concat(...) }: the new object has the items key only.
SpreadOnlyItems(h, state) ==
    LET c == ConcatNext(h, state)
    IN IF c.threw THEN c
       ELSE LET h2 == Append(c.heap, ObjectCell([NoProps EXCEPT !["items"] = c.val]))
            IN [threw |-> FALSE, heap |-> h2, val |-> Ref(Len(h2))]

\* { ...state, items: state.items.concat(state.items.length + 1) }: a new
\* object cell holding state's own properties with items replaced.
SpreadWithItems(h, state) ==
    LET c == ConcatNext(h, state)
    IN IF c.threw THEN c
       ELSE LET h2 == Append(c.heap,
                        ObjectCell([OwnProps(h, state) EXCEPT !["items"] = c.val]))
            IN [threw |-> FALSE, heap |-> h2, val |-> Ref(Len(h2))]

\* AssignWithItems as it would be with Object.assign({}, { items: ... }): the
\* state's own properties are not copied to the target.
AssignOnlyItems(h, state) ==
    LET h1 == Append(h, ObjectCell(NoProps))
        target == Len(h1)
        c == ConcatNext(h1, state)
    IN IF c.threw THEN c
       ELSE LET source == [NoProps EXCEPT !["items"] = c.val]
                h3 == Append(c.heap, ObjectCell(source))
            IN [threw |-> FALSE,
                heap |-> [h3 EXCEPT ![target] = ObjectCell(source)],
                val |-> Ref(target)]

\* Object.assign({}, state, { items: state.items.concat(...) }): the target {}
\* is allocated first, then the array, then the source literal; the target
\* receives state's own properties and then the literal's, and is returned.
AssignWithItems(h, state) ==
    LET h1 == Append(h, ObjectCell(NoProps))
        target == Len(h1)
        c == ConcatNext(h1, state)
    IN IF c.threw THEN c
       ELSE LET source == [NoProps EXCEPT !["items"] = c.val]
                h3 == Append(c.heap, ObjectCell(source))
                copied == OwnProps(h, state)
                merged == [k \in Keys |-> IF source[k] # Absent THEN source[k]
                                          ELSE copied[k]]
            IN [threw |-> FALSE,
                heap |-> [h3 EXCEPT ![target] = ObjectCell(merged)],
                val |-> Ref(target)]

\* -------------------------------------------------------- module-level state
\* counterSlice.js evaluates `const initialState = { items: [] }` once, when
\* the module loads: the array is cell 1 and the object cell 2 of the heap of
\* a program that loaded that module.
initialStateItems == 1
initialState == 2
SliceHeap ==
    << ArrayCell(<<>>),
       ObjectCell([NoProps EXCEPT !["items"] = Ref(initialStateItems)]) >>

\* The default parameter `state = { items: [] }` of shoppingListItemReducer:
\* the literal is evaluated, and so allocated, at each call made with an
\* undefined state.
DefaultLiteral(h) ==
    LET h1 == Append(h, ArrayCell(<<>>))
        h2 == Append(h1, ObjectCell([NoProps EXCEPT !["items"] = Ref(Len(h1))]))
    IN [heap |-> h2, val |-> Ref(Len(h2))]

\* ----------------------------------------------------------------- reducers
\* The tail shared by the logging reducers' increment branch: two console
\* lines, each reading state.items.length, then the object `built` by the return
\* expression (evaluated after the two lines).
LoggedIncrement(h, state, log, built) ==
    LET n == ItemsLength(h, state)
    IN IF n.t = "throw" THEN Raised(h, log)
       ELSE LET log2 == log \o << LogLength("Current state.items length %s", n),
                                  LogLength("Updating state.items length to %s",
                                            AddOne(n)) >>
            IN IF built.threw THEN Raised(built.heap, log2)
               ELSE Returned(built.heap, built.val, log2)

\* LoggedDefault as it would be if the default branch started over from a
\* fresh { items: [] } instead of returning the state it was given.
LoggedDefaultResets(h, state, log, msg) ==
    LET n == ItemsLength(h, state)
        d == DefaultLiteral(h)
    IN IF n.t = "throw" THEN Raised(h, log)
       ELSE Returned(d.heap, d.val, Append(log, LogLength(msg, n)))

\* The logging reducers' default branch: one console line reading
\* state.items.length, then the state it was given.
LoggedDefault(h, state, log, msg) ==
    LET n == ItemsLength(h, state)
    IN IF n.t = "throw" THEN Raised(h, log)
       ELSE Returned(h, state, Append(log, LogLength(msg, n)))

\* counterReducer as it would be if the increment branch were taken only for
\* an action without a payload.
counterReducerReadsPayload(h, stateArg, action) ==
    LET state == IF stateArg = Undefined THEN Ref(initialState) ELSE stateArg
    IN IF action.type = CountIncrement /\ action.payload = 0
       THEN LoggedIncrement(h, state, <<>>, SpreadWithItems(h, state))
       ELSE LoggedDefault(h, state, <<>>, "Initial state.items length %s")

\* src/features/counter/counterSlice.js, the logging version.
counterReducer(h, stateArg, action) ==
    LET state == IF stateArg = Undefined THEN Ref(initialState) ELSE stateArg
    IN IF action.type = CountIncrement
       THEN LoggedIncrement(h, state, <<>>, SpreadWithItems(h, state))
       ELSE LoggedDefault(h, state, <<>>, "Initial state.items length %s")

\* shoppingListReducer as it would be with no switch on action.type: every
\* call takes the increment branch.
shoppingListReducerEveryCall(h, stateArg, action) ==
    LET state == IF stateArg = Undefined THEN Ref(initialState) ELSE stateArg
        b == SpreadWithItems(h, state)
    IN IF b.threw THEN Raised(b.heap, <<>>)
       ELSE Returned(b.heap, b.val, <<>>)

\* shoppingListSlice.js: the same reducer without the logging.
shoppingListReducer(h, stateArg, action) ==
    LET state == IF stateArg = Undefined THEN Ref(initialState) ELSE stateArg
    IN IF action.type = CountIncrement
       THEN LET b == SpreadWithItems(h, state)
            IN IF b.threw THEN Raised(b.heap, <<>>)
               ELSE Returned(b.heap, b.val, <<>>)
       ELSE Returned(h, state, <<>>)

\* reducers/shoppingListItemReducer.js with logging and Object.assign.
shoppingListItemReducerAssign(h, stateArg, action) ==
    LET d == IF stateArg = Undefined THEN DefaultLiteral(h)
             ELSE [heap |-> h, val |-> stateArg]
        log == << LogAction(action) >>
    IN IF action.type = IncreaseCount
       THEN LoggedIncrement(d.heap, d.val, log, AssignWithItems(d.heap, d.val))
       ELSE LoggedDefault(d.heap, d.val, log, "Initial state.items length: %s")

\* shoppingListItemReducerSpread as it would be if the default branch
\* returned a copy, { ...state }, instead of state.
shoppingListItemReducerSpreadCopies(h, stateArg, action) ==
    LET d == IF stateArg = Undefined THEN DefaultLiteral(h)
             ELSE [heap |-> h, val |-> stateArg]
    IN IF action.type = IncreaseCount
       THEN LET b == SpreadWithItems(d.heap, d.val)
            IN IF b.threw THEN Raised(b.heap, <<>>)
               ELSE Returned(b.heap, b.val, <<>>)
       ELSE LET h1 == Append(d.heap, ObjectCell(OwnProps(d.heap, d.val)))
            IN Returned(h1, Ref(Len(h1)), <<>>)

\* reducers/shoppingListItemReducer.js with object spread.
shoppingListItemReducerSpread(h, stateArg, action) ==
    LET d == IF stateArg = Undefined THEN DefaultLiteral(h)
             ELSE [heap |-> h, val |-> stateArg]
    IN IF action.type = IncreaseCount
       THEN LET b == SpreadWithItems(d.heap, d.val)
            IN IF b.threw THEN Raised(b.heap, <<>>)
               ELSE Returned(b.heap, b.val, <<>>)
       ELSE Returned(d.heap, d.val, <<>>)

\* The first shoppingListItemReducer of the walkthrough: the increment branch
\* returns the concatenated array itself, not an object holding it.
shoppingListItemReducerBare(h, stateArg, action) ==
    LET d == IF stateArg = Undefined THEN DefaultLiteral(h)
             ELSE [heap |-> h, val |-> stateArg]
    IN IF action.type = IncreaseCount
       THEN LET c == ConcatNext(d.heap, d.val)
            IN IF c.threw THEN Raised(c.heap, <<>>)
               ELSE Returned(c.heap, c.val, <<>>)
       ELSE Returned(d.heap, d.val, <<>>)

ReducerNames == {"counterReducer", "shoppingListReducer",
                 "shoppingListItemReducerAssign",
                 "shoppingListItemReducerSpread",
                 "shoppingListItemReducerBare"}

\* The reducers whose module declares `const initialState`.
SliceReducers == {"counterReducer", "shoppingListReducer"}

\* The call reducer(state, action) of the named variant.
Reduce(name, h, stateArg, action) ==
    CASE name = "counterReducer" -> counterReducer(h, stateArg, action)
      [] name = "shoppingListReducer" -> shoppingListReducer(h, stateArg, action)
      [] name = "shoppingListItemReducerAssign" ->
             shoppingListItemReducerAssign(h, stateArg, action)
      [] name = "shoppingListItemReducerSpread" ->
             shoppingListItemReducerSpread(h, stateArg, action)
      [] name = "shoppingListItemReducerBare" ->
             shoppingListItemReducerBare(h, stateArg, action)

\* The action type the named reducer's switch recognizes.
RecognizedType(name) ==
    IF name \in SliceReducers THEN CountIncrement ELSE IncreaseCount

\* The heap of a program that has loaded the named reducer's module.
LoadedHeap(name) == IF name \in SliceReducers THEN SliceHeap ELSE <<>>


\* ---------------------------------------------------------------- variables
VARIABLES
    config,         \* which entry point, reducer and view the program is made of
    devtools,       \* window.__REDUX_DEVTOOLS_EXTENSION__ is defined in the browser
    pc,             \* where the run is: the entry script's position, or a call's
    heap,           \* the cells allocated so far
    currentState,   \* the store's state (a value; undefined before createStore)
    stores,         \* how many stores createStore has built
    dispatched,     \* the actions passed to store.dispatch, oldest first
    uncaught,       \* how many exceptions left a dispatch
    monitor,        \* what the devtools extension was shown by an enhanced store
    console,        \* the lines written by console.log
    displayed,      \* what the view's <p> shows: the value last rendered
    clicks,         \* how many times the button was activated
    call,           \* a reducer call under test: its state argument and action
    result          \* that call's outcome, with the heap it started from

vars == << config, devtools, pc, heap, currentState, stores, dispatched, uncaught,
           monitor, console, displayed, clicks, call, result >>

envVars == << config, devtools >>
storeVars == << currentState, stores, dispatched, uncaught, monitor >>
viewVars == << displayed, clicks >>
callVars == << call, result >>

NoCall == [state |-> Undefined, action |-> NoAction]
NoResult == [done |-> FALSE, threw |-> FALSE, ret |-> Absent, before |-> <<>>]

Config(entry, reducer, view) == [entry |-> entry, reducer |-> reducer, view |-> view]

\* ------------------------------------------------- the reducer as a function
\* The states a reducer is applied to: an object with an items array (and
\* possibly a foreign key), a bare array, or no state at all.
ItemSeqs == UNION { [1..n -> 0..MaxItem] : n \in 0..MaxLen }
OtherVals == {Absent, Num(7)}
InputStates ==
    { [kind |-> "object", items |-> it, other |-> o] : it \in ItemSeqs, o \in OtherVals }
    \cup { [kind |-> "array", items |-> it, other |-> Absent] : it \in ItemSeqs }
    \cup { [kind |-> "absent", items |-> <<>>, other |-> Absent] }

\* The heap holding input state `in` on top of the cells in `base`, and the
\* value that refers to it.
Allocate(base, in) ==
    CASE in.kind = "object" ->
           [heap |-> base \o << ArrayCell(in.items),
                                ObjectCell([items |-> Ref(Len(base) + 1),
                                            other |-> in.other]) >>,
            val |-> Ref(Len(base) + 2)]
      [] in.kind = "array" ->
           [heap |-> Append(base, ArrayCell(in.items)), val |-> Ref(Len(base) + 1)]
      [] in.kind = "absent" -> [heap |-> base, val |-> Undefined]

ReducerInit ==
    /\ \E name \in ReducerNames, in \in InputStates, a \in Actions :
         LET m == Allocate(LoadedHeap(name), in)
         IN /\ config = Config("none", name, "none")
            /\ heap = m.heap
            /\ call = [state |-> m.val, action |-> a]
    /\ devtools = FALSE
    /\ pc = "call"
    /\ result = NoResult
    /\ currentState = Undefined
    /\ stores = 0
    /\ dispatched = <<>>
    /\ uncaught = 0
    /\ monitor = <<>>
    /\ console = <<>>
    /\ displayed = Absent
    /\ clicks = 0

\* One call reducer(state, action).
CallReducer ==
    /\ pc = "call"
    /\ LET out == Reduce(config.reducer, heap, call.state, call.action)
       IN /\ heap' = out.heap
          /\ console' = console \o out.log
          /\ result' = [done |-> TRUE, threw |-> out.threw, ret |-> out.ret,
                        before |-> heap]
    /\ pc' = "return"
    /\ UNCHANGED << envVars, call, storeVars, viewVars >>

ReducerNext == CallReducer

ReducerSpec == ReducerInit /\ [][ReducerNext]_vars

\* ------------------------------------------------- the reducer applied in a row
\* reducer(... reducer(reducer(s, a1), a2) ..., ak) from any input state s:
\* currentState is the value the next call is given, dispatched the actions
\* applied so far, call.state and result.before the input state and the heap
\* it was in.
FoldActions == { Action(ty, 0) : ty \in ActionTypes }

FoldInit ==
    /\ \E name \in ReducerNames, in \in InputStates :
         LET m == Allocate(LoadedHeap(name), in)
         IN /\ config = Config("none", name, "none")
            /\ heap = m.heap
            /\ call = [state |-> m.val, action |-> NoAction]
            /\ currentState = m.val
            /\ result = [NoResult EXCEPT !.before = m.heap]
    /\ devtools = FALSE
    /\ pc = "fold"
    /\ stores = 0
    /\ dispatched = <<>>
    /\ uncaught = 0
    /\ monitor = <<>>
    /\ console = <<>>
    /\ displayed = Absent
    /\ clicks = 0

\* One more call, on the value the call before it returned; a call that
\* raises ends the row.
FoldApply(action) ==
    /\ pc = "fold"
    /\ Len(dispatched) < MaxDispatch
    /\ LET out == Reduce(config.reducer, heap, currentState, action)
       IN /\ heap' = out.heap
          /\ console' = console \o out.log
          /\ currentState' = IF out.threw THEN currentState ELSE out.ret
          /\ uncaught' = IF out.threw THEN uncaught + 1 ELSE uncaught
          /\ pc' = IF out.threw THEN "raised" ELSE "fold"
    /\ dispatched' = Append(dispatched, action)
    /\ UNCHANGED << envVars, stores, monitor, viewVars, callVars >>

FoldNext == \E a \in FoldActions : FoldApply(a)

FoldSpec == FoldInit /\ [][FoldNext]_vars

\* ------------------------------------------------------------------ the store
\* createStore(reducer[, enhancer]): the store obtains its first state by
\* calling the reducer with no state and its own initialisation action.
\* The second argument of createStore:
\*   window.__REDUX_DEVTOOLS_EXTENSION__ && window.__REDUX_DEVTOOLS_EXTENSION__()
\* in the entries that write it, nothing in the others. With the hook defined
\* it is the enhancer the extension returns; with the hook undefined the &&
\* yields undefined without calling anything.
UsesDevtools(entry) == entry \in {"providerDevtools", "providerAndProp"}
DevtoolsEnhancer == [t |-> "enhancer", v |-> 0]

\* EnhancerArg as it would be if the hook were called without the && guard:
\* calling undefined raises a TypeError.
EnhancerArgUnguarded(hook) == IF hook THEN DevtoolsEnhancer ELSE Thrown

EnhancerArg(hook) == IF hook THEN DevtoolsEnhancer ELSE Undefined

SecondArg(entry, hook) == IF UsesDevtools(entry) THEN EnhancerArg(hook) ELSE Absent

\* The store was built through the extension's enhancer, which is shown every
\* action and the state that results from it.
Enhanced(entry, hook) == SecondArg(entry, hook) = DevtoolsEnhancer
Observed(action, state) == [type |-> action.type, state |-> state]

\* The entry script calls createStore at all.
BuildsStore(entry) == entry # "noStore"

\* The entry script calls ReactDOM.render before it calls createStore.
RendersFirst(entry) == entry = "renderFirst"

CreateStore ==
    /\ pc = IF RendersFirst(config.entry) THEN "rendered" ELSE "load"
    /\ BuildsStore(config.entry)
    /\ LET enhancer == SecondArg(config.entry, devtools)
           out == Reduce(config.reducer, heap, Undefined, Action(ReduxInit, 0))
       IN IF enhancer = Thrown
          THEN /\ pc' = "failed"
               /\ uncaught' = uncaught + 1
               /\ UNCHANGED << heap, console, currentState, stores, monitor >>
          ELSE /\ heap' = out.heap
               /\ console' = console \o out.log
               /\ currentState' = out.ret
               /\ uncaught' = IF out.threw THEN uncaught + 1 ELSE uncaught
               /\ pc' = IF out.threw THEN "failed"
                        ELSE IF RendersFirst(config.entry) THEN "mounted"
                             ELSE "created"
               /\ stores' = stores + 1
               /\ monitor' = IF enhancer = DevtoolsEnhancer
                             THEN << Observed(Action(ReduxInit, 0), out.ret) >>
                             ELSE << >>
    /\ UNCHANGED << envVars, dispatched, viewVars, callVars >>

\* StoreDispatch as it would be if the reducer were handed no state (so that
\* its default applies) instead of the store's current state.
StoreDispatchFromDefault(action) ==
    LET out == Reduce(config.reducer, heap, Undefined, action)
    IN /\ heap' = out.heap
       /\ console' = console \o out.log
       /\ dispatched' = Append(dispatched, action)
       /\ currentState' = IF out.threw THEN currentState ELSE out.ret
       /\ uncaught' = IF out.threw THEN uncaught + 1 ELSE uncaught
       /\ monitor' = IF Enhanced(config.entry, devtools) /\ ~out.threw
                     THEN Append(monitor, Observed(action, out.ret))
                     ELSE monitor
       /\ UNCHANGED stores

\* store.dispatch(action): the reducer runs on the current state inside the
\* call; its result becomes the state, and an exception leaves the state as
\* it was and propagates to the caller.
StoreDispatch(action) ==
    LET out == Reduce(config.reducer, heap, currentState, action)
    IN /\ heap' = out.heap
       /\ console' = console \o out.log
       /\ dispatched' = Append(dispatched, action)
       /\ currentState' = IF out.threw THEN currentState ELSE out.ret
       /\ uncaught' = IF out.threw THEN uncaught + 1 ELSE uncaught
       /\ monitor' = IF Enhanced(config.entry, devtools) /\ ~out.threw
                     THEN Append(monitor, Observed(action, out.ret))
                     ELSE monitor
       /\ UNCHANGED stores

\* A caller of the store's API dispatches any action.
Dispatch(action) ==
    /\ pc = "created"
    /\ config.view = "none"
    /\ Len(dispatched) < MaxDispatch
    /\ StoreDispatch(action)
    /\ UNCHANGED << envVars, pc, viewVars, callVars >>

\* The ways the entry points call createStore: with the reducer alone, or
\* with the devtools expression as second argument.
StoreForms == {"none", "providerDevtools"}

StoreInit ==
    /\ \E name \in ReducerNames, form \in StoreForms :
         /\ config = Config(form, name, "none")
         /\ heap = LoadedHeap(name)
    /\ devtools \in BOOLEAN
    /\ pc = "load"
    /\ currentState = Undefined
    /\ stores = 0
    /\ dispatched = <<>>
    /\ uncaught = 0
    /\ monitor = <<>>
    /\ console = <<>>
    /\ displayed = Absent
    /\ clicks = 0
    /\ call = NoCall
    /\ result = NoResult

StoreNext ==
    \/ CreateStore
    \/ \E a \in Actions : Dispatch(a)

StoreSpec == StoreInit /\ [][StoreNext]_vars

\* ------------------------------------------------------------- entry points
\* index.js variants that mount the view, most after building a store.
\*   "propStore"        createStore(reducer); <App store={store} />
\*   "provider"         createStore(reducer); <Provider store={store}><App />
\*   "providerDevtools" createStore(reducer, devtools hook); <Provider ...><App />
\*   "providerAndProp"  createStore(reducer, devtools hook);
\*                      <Provider store={store}><App store={store} />
\*   "noStore"          no createStore at all; <App />
\*   "storeOnly"        createStore(reducer); <App />
\*   "renderFirst"      <App /> rendered, and then createStore(reducer)
Entries == {"propStore", "provider", "providerDevtools", "providerAndProp", "noStore",
            "storeOnly", "renderFirst"}

\* The entry hands the store to App as the prop `store`.
PassesStoreProp(entry) == entry \in {"propStore", "providerAndProp"}
\* The entry wraps App in a Provider holding the store.
ProvidesStore(entry) == entry \in {"provider", "providerDevtools", "providerAndProp"}

\* -------------------------------------------------------------------- views
\*   "AppStoreProp"  class App, this.props.store.dispatch INCREASE_COUNT
\*   "AppLogTarget"  class App, handleOnClick logs event.target
\*   "AppGetCount"   class App, this.props.store.dispatch GET_COUNT_OF_ITEMS
\*   "AppConnect"    class App wrapped by connect(mapStateToProps, mapDispatchToProps)
\*   "AppHooks"      function App with useSelector and useDispatch
\*   "Counter"       function Counter with useSelector and useDispatch
Views == {"AppStoreProp", "AppLogTarget", "AppGetCount",
          "AppConnect", "AppHooks", "Counter"}

\* The view reads the store from this.props.store.
ReadsStoreProp(view) == view \in {"AppStoreProp", "AppLogTarget", "AppGetCount"}

\* Subscribed as it would be if only connect subscribed the view, the hook
\* views reading the state once.
SubscribedOnlyByConnect(view) == view = "AppConnect"

\* The view is subscribed to the store: useSelector, or connect's
\* mapStateToProps, re-runs after each dispatch and a changed result
\* re-renders the component.
Subscribed(view) == view \in {"AppConnect", "AppHooks", "Counter"}

\* The action the view's click handler dispatches; NoAction when the handler
\* dispatches nothing.
ClickAction(view) ==
    CASE view = "AppStoreProp" -> Action(IncreaseCount, 0)
      [] view = "AppLogTarget" -> NoAction
      [] view = "AppGetCount" -> Action(GetCountOfItems, 0)
      [] view = "AppConnect" -> Action(IncreaseCount, 0)
      [] view = "AppHooks" -> Action(CountIncrement, 0)
      [] view = "Counter" -> Action(CountIncrement, 0)

\* The store is reachable from the view: as a prop for the views that read
\* this.props.store, through the Provider's context for the others.
StoreReachable(c) ==
    IF ReadsStoreProp(c.view) THEN PassesStoreProp(c.entry)
    ELSE ProvidesStore(c.entry)

\* What the selector (state) => state.items, or mapStateToProps, picks.
Selected(h, state) == GetProp(h, state, "items")

\* The content of <p>: items.length of the store's state as the view reads
\* it; a render that cannot reach the store throws.
RenderView(c, h, state) ==
    IF ~StoreReachable(c) THEN Thrown ELSE ItemsLength(h, state)

\* The programs the sources assemble: index.js, reducer and App.js as they
\* stand together at one stage of one of the three texts, or as files.
\*  First text (part_000): <App store={store} /> with the array-returning
\*   reducer and the class App files, then with the App that dispatches
\*   INCREASE_COUNT; the reducer becomes the logging Object.assign version;
\*   index.js gets the devtools expression, the Provider and the store prop.
\*  Second text (part_001): the store built and <App /> mounted alone, then
\*   under the Provider, App.js still a class App file; App.js becomes the
\*   connect App; the reducer gets its logging; index.js gets the devtools
\*   expression.
\*  Files: index.js with the Provider (src/index.js:1-16), the logging
\*   Object.assign reducer and the class App files.
\*  Third text (README.md): <App /> rendered before the store is built, then
\*   under the Provider, with the silent counterReducer and the hook App;
\*   Counter is written; the reducer gets its logging; index.js gets the
\*   devtools expression.
\*  Files: index.js with the devtools expression (part_002), counterSlice.js
\*   and the hook App or Counter; and the index.js that builds no store.
AppConfigs ==
    { Config("propStore", "shoppingListItemReducerBare", v) :
        v \in {"AppLogTarget", "AppGetCount", "AppStoreProp"} }
    \cup { Config(e, "shoppingListItemReducerAssign", "AppStoreProp") :
             e \in {"propStore", "providerAndProp"} }
    \cup { Config(e, "shoppingListItemReducerSpread", v) :
             e \in {"storeOnly", "provider"}, v \in {"AppLogTarget", "AppGetCount"} }
    \cup { Config("provider", r, "AppConnect") :
             r \in {"shoppingListItemReducerSpread", "shoppingListItemReducerAssign"} }
    \cup { Config("providerDevtools", "shoppingListItemReducerAssign", "AppConnect") }
    \cup { Config("provider", "shoppingListItemReducerAssign", v) :
             v \in {"AppLogTarget", "AppGetCount"} }
    \cup { Config(e, "shoppingListReducer", "AppHooks") :
             e \in {"renderFirst", "provider"} }
    \cup { Config("provider", r, "Counter") :
             r \in {"shoppingListReducer", "counterReducer"} }
    \cup { Config("providerDevtools", "counterReducer", v) :
             v \in {"AppHooks", "Counter"} }
    \cup { Config("noStore", "shoppingListReducer", "AppHooks") }

\* ReactDOM.render(...): the first render of the view. It is the last
\* statement of every entry script but the one that builds its store after
\* it; there, a render that throws leaves ReactDOM.render as an exception,
\* which ends the script before createStore is reached.
Mount ==
    /\ pc = IF BuildsStore(config.entry) /\ ~RendersFirst(config.entry)
            THEN "created" ELSE "load"
    /\ config.view # "none"
    /\ displayed' = RenderView(config, heap, currentState)
    /\ pc' = IF ~RendersFirst(config.entry) THEN "mounted"
             ELSE IF displayed'.t = "throw" THEN "failed"
                  ELSE "rendered"
    /\ UNCHANGED << envVars, heap, console, storeVars, clicks, callVars >>

\* console.log(event.target)
LogEventTarget == [msg |-> "event.target", n |-> Undefined, action |-> NoAction]

\* One activation of the button, as one click event: the view's
\* handleOnClick with the dispatch it makes, and, for a subscribed view whose
\* selected state the dispatch changed, the re-render that the framework
\* flushes before the event ends. A view that is not subscribed is not
\* rendered again.
Click ==
    /\ pc = "mounted"
    /\ displayed.t # "throw"
    /\ clicks < MaxClicks
    /\ clicks' = clicks + 1
    /\ IF ClickAction(config.view) = NoAction
       THEN /\ console' = Append(console, LogEventTarget)
            /\ UNCHANGED << heap, storeVars, displayed >>
       ELSE /\ StoreDispatch(ClickAction(config.view))
            /\ displayed' =
                 IF /\ Subscribed(config.view)
                    /\ Selected(heap', currentState') # Selected(heap, currentState)
                 THEN RenderView(config, heap', currentState')
                 ELSE displayed
    /\ UNCHANGED << envVars, pc, callVars >>

Init ==
    /\ \E c \in AppConfigs :
         /\ config = c
         /\ heap = LoadedHeap(c.reducer)
    /\ devtools \in BOOLEAN
    /\ pc = "load"
    /\ currentState = Undefined
    /\ stores = 0
    /\ dispatched = <<>>
    /\ uncaught = 0
    /\ monitor = <<>>
    /\ console = <<>>
    /\ displayed = Absent
    /\ clicks = 0
    /\ call = NoCall
    /\ result = NoResult

Next ==
    \/ CreateStore
    \/ Mount
    \/ Click

Spec == Init /\ [][Next]_vars

\* ------------------------------------------------------ reading a state value
\* val is a state of the data model: an object whose items is an array.
IsStateShape(h, val) == IsObject(h, val) /\ IsArray(h, GetProp(h, val, "items"))

\* The elements of val.items, for a val of that shape.
ItemsOf(h, val) == h[GetProp(h, val, "items").v].elems

\* 1, 2, ..., k
Counting(k) == [i \in 1..k |-> i]

\* How many of the actions in `as` have the type `type`.
RECURSIVE CountType(_, _)
CountType(as, type) ==
    IF as = <<>> THEN 0
    ELSE (IF as[1].type = type THEN 1 ELSE 0) + CountType(Tail(as), type)

\* The reducers whose increment branch returns an object.
ObjectReducers == ReducerNames \ {"shoppingListItemReducerBare"}

\* -------------------------------------------------------------------- claims

\* C1: for every state s of the data model and every action whose type is not
\* the one the reducer recognizes, the call returns s itself: the very same
\* reference, with nothing allocated and no cell changed, so items is as it
\* was. Holds for all five reducer variants.
C1_UnrecognizedReturnsSameState ==
    (/\ result.done
     /\ call.action.type # RecognizedType(config.reducer)
     /\ IsStateShape(result.before, call.state))
    => (/\ ~result.threw
        /\ result.ret = call.state
        /\ heap = result.before)

\* C1's case: { type: "NOOP" } against { items: [1, 2] } gave back the same
\* reference, still holding [1, 2].
C1_Witness ==
    /\ result.done
    /\ call.action.type = Noop
    /\ IsStateShape(result.before, call.state)
    /\ ItemsOf(result.before, call.state) = <<1, 2>>
    /\ result.ret = call.state
    /\ ItemsOf(heap, result.ret) = <<1, 2>>

\* C2: for every state s with items of length n, the reducer applied to s and
\* its increment action returns a state whose items has length n + 1, begins
\* with the n elements of s.items in order, and ends with n + 1. Stated for
\* the reducers whose increment branch returns an object (counterReducer,
\* shoppingListReducer, shoppingListItemReducer with spread or Object.assign).
C2_IncrementAppendsLengthPlusOne ==
    (/\ result.done
     /\ config.reducer \in ObjectReducers
     /\ call.action.type = RecognizedType(config.reducer)
     /\ IsStateShape(result.before, call.state))
    => (/\ ~result.threw
        /\ IsStateShape(heap, result.ret)
        /\ LET old == ItemsOf(result.before, call.state)
               new == ItemsOf(heap, result.ret)
           IN /\ Len(new) = Len(old) + 1
              /\ SubSeq(new, 1, Len(old)) = old
              /\ new[Len(new)] = Len(old) + 1)

\* C2's case: an increment of a state whose items is [2, 0] (not a counter's
\* own list) returned [2, 0, 3].
C2_Witness ==
    /\ result.done
    /\ config.reducer \in ObjectReducers
    /\ call.action.type = RecognizedType(config.reducer)
    /\ IsStateShape(result.before, call.state)
    /\ ItemsOf(result.before, call.state) = <<2, 0>>
    /\ ~result.threw
    /\ ItemsOf(heap, result.ret) = <<2, 0, 3>>

\* C3, the invariant: once the store is built, items is exactly 1, 2, ..., k
\* for k the number of increment actions dispatched so far.
C3_ItemsCountsIncrements ==
    (pc = "created" /\ config.reducer \in ObjectReducers)
    => (/\ IsStateShape(heap, currentState)
        /\ ItemsOf(heap, currentState)
             = Counting(CountType(dispatched, RecognizedType(config.reducer))))

\* C3, the step: a dispatch that changes the state appends exactly one
\* element, the previous length + 1, and keeps the earlier elements in place.
C3_ChangeAppendsOne ==
    (/\ pc = "created"
     /\ config.reducer \in ObjectReducers
     /\ currentState' # currentState)
    => ItemsOf(heap', currentState')
         = Append(ItemsOf(heap, currentState), Len(ItemsOf(heap, currentState)) + 1)

\* C3: in every state reachable from the initial store state { items: [] } by
\* any sequence of dispatched actions, items is 1, 2, ..., k with k the
\* number of increments dispatched; every transition that changes the state
\* appends one element equal to the previous length + 1 and never reorders or
\* removes an element. Stated for the reducers whose increment branch returns
\* an object.
C3_ItemsIsCounter == []C3_ItemsCountsIncrements /\ [][C3_ChangeAppendsOne]_vars

\* C3's case: three increments (and nothing else) from the initial state gave
\* [1, 2, 3].
C3_Witness ==
    /\ pc = "created"
    /\ config.reducer \in ObjectReducers
    /\ Len(dispatched) = 3
    /\ CountType(dispatched, RecognizedType(config.reducer)) = 3
    /\ ItemsOf(heap, currentState) = <<1, 2, 3>>

\* C4: after any sequence of dispatched actions, in every reducer variant,
\* the store state is a mapping whose key items holds a sequence of integers;
\* it never becomes a bare sequence or any other shape.
C4_StateIsItemsMapping ==
    pc = "created" => IsStateShape(heap, currentState)

\* C5: the reducer is total: after any sequence of earlier dispatches, a
\* reducer call on the store's state returns a next state and raises nothing.
C5_ReducerNeverRaises ==
    /\ uncaught = 0
    /\ pc # "failed"

\* C6: in every view variant, each activation of the button sends exactly one
\* action to the store, and that action has the increment type recognized by
\* the reducer the store was built from.
C6_ClickSendsOneRecognizedAction ==
    pc = "mounted"
    => (/\ Len(dispatched) = clicks
        /\ \A i \in 1..Len(dispatched) :
             dispatched[i].type = RecognizedType(config.reducer))

\* C7, the step: a click dispatches one action and leaves a state whose items
\* is one longer than before the click.
C7_ClickGrowsItems ==
    (clicks' = clicks + 1)
    => (/\ Len(dispatched') = Len(dispatched) + 1
        /\ IsStateShape(heap, currentState)
        /\ IsStateShape(heap', currentState')
        /\ Len(ItemsOf(heap', currentState')) = Len(ItemsOf(heap, currentState)) + 1)

\* C7: with the view mounted under the store built by the entry point, every
\* button click dispatches an action to the store and changes the store
\* state: after each click items is one longer than before it.
C7_EveryClickChangesState == [][C7_ClickGrowsItems]_vars

\* The number on the page is the length of the store's items.
ShowsCurrentLength ==
    /\ IsStateShape(heap, currentState)
    /\ displayed = Num(Len(ItemsOf(heap, currentState)))

\* The view variants the text calls subscribed: those written with connect
\* or with useSelector.
ConnectOrSelectorViews == {"AppConnect", "AppHooks", "Counter"}

\* C8, the state: a connect or useSelector view mounted over the store shows
\* the current length of the store's items.
C8_MountedViewShowsLength ==
    (config.view \in ConnectOrSelectorViews /\ stores = 1 /\ pc = "mounted")
    => ShowsCurrentLength

\* C8, the step: when a dispatch changes items under such a view, the view is
\* rendered again and the number displayed becomes the new length.
C8_ChangeOfItemsRerenders ==
    (/\ config.view \in ConnectOrSelectorViews
     /\ stores = 1
     /\ pc = "mounted"
     /\ IsStateShape(heap', currentState')
     /\ ItemsOf(heap', currentState') # ItemsOf(heap, currentState))
    => /\ displayed' = Num(Len(ItemsOf(heap', currentState')))
       /\ displayed' # displayed

\* C8: in the subscribed view variants (useSelector or connect) the view
\* renders the length of the store's items, and whenever a dispatch changes
\* items the view is re-rendered, so that the number displayed equals the
\* current length of items.
C8_SubscribedViewCatchesUp ==
    /\ []C8_MountedViewShowsLength
    /\ [][C8_ChangeOfItemsRerenders]_vars

\* C8's case: a connect or useSelector view, clicked twice, re-rendered and
\* showing 2 for items [1, 2].
C8_Witness ==
    /\ config.view \in ConnectOrSelectorViews
    /\ pc = "mounted"
    /\ clicks = 2
    /\ ItemsOf(heap, currentState) = <<1, 2>>
    /\ displayed = Num(2)

\* C9, the step: in the view that reads this.props.store.getState() in render
\* and dispatches INCREASE_COUNT, a click changes the store state.
C9_ClickChangesState ==
    (config.view = "AppStoreProp" /\ clicks' = clicks + 1)
    => currentState' # currentState

\* C9: where the store is passed to App as a prop and read with
\* store.getState() in render, with no subscription, clicking the button
\* changes the store state but the number displayed never changes: it stays
\* at 0 after any number of clicks.
C9_StateChangesDisplayStaysZero ==
    /\ [](config.view = "AppStoreProp" /\ pc = "mounted" => displayed = Num(0))
    /\ [][C9_ClickChangesState]_vars

\* C10: the state is created exactly once, at store construction, as
\* { items: [] }: once the entry point has built its store there is one store,
\* and before any button click its state is { items: [] } (no other key) and
\* the mounted view displays 0.
C10_InitialStateIsEmptyItems ==
    BuildsStore(config.entry) =>
      /\ pc \in {"created", "mounted"} => stores = 1
      /\ (pc \in {"created", "mounted"} /\ clicks = 0)
           => (/\ IsStateShape(heap, currentState)
               /\ ItemsOf(heap, currentState) = <<>>
               /\ GetProp(heap, currentState, "other") = Undefined)
      /\ (pc = "mounted" /\ clicks = 0) => displayed = Num(0)

\* ---------------------------------------------------------------- C11 .. C20
\* The store that createStore(reducer), with no second argument, is in after
\* the dispatches `actions`: the reducer is called once with no state for the
\* first state and once per action on the state before it, and a call that
\* raises leaves the state as it was.
RECURSIVE StoreAfter(_, _)
StoreAfter(name, actions) ==
    IF actions = << >>
    THEN LET out == Reduce(name, LoadedHeap(name), Undefined, Action(ReduxInit, 0))
         IN [heap |-> out.heap, state |-> out.ret]
    ELSE LET prev == StoreAfter(name, SubSeq(actions, 1, Len(actions) - 1))
             out == Reduce(name, prev.heap, prev.state, actions[Len(actions)])
         IN [heap |-> out.heap,
             state |-> IF out.threw THEN prev.state ELSE out.ret]

\* C11: when window.__REDUX_DEVTOOLS_EXTENSION__ is absent, createStore with
\* the devtools expression as second argument succeeds, and after every
\* sequence of dispatches the store holds the state that a store built from
\* the reducer alone holds after the same dispatches; nothing is shown to an
\* extension.
C11_AbsentHookIsPlainStore ==
    /\ (UsesDevtools(config.entry) /\ ~devtools /\ pc # "load")
       => /\ pc = "created"
          /\ stores = 1
          /\ currentState = StoreAfter(config.reducer, dispatched).state
          /\ heap = StoreAfter(config.reducer, dispatched).heap
          /\ monitor = << >>
    /\ (config.entry = "none" /\ pc = "created")
       => /\ currentState = StoreAfter(config.reducer, dispatched).state
          /\ heap = StoreAfter(config.reducer, dispatched).heap

\* C11's case: no hook in the browser, the store built with the devtools
\* expression, two increments dispatched and counted.
C11_Witness ==
    /\ UsesDevtools(config.entry)
    /\ ~devtools
    /\ pc = "created"
    /\ Len(dispatched) >= 2
    /\ IsStateShape(heap, currentState)
    /\ ItemsOf(heap, currentState) = <<1, 2>>

\* C12: every entry-point variant constructs exactly one store from the
\* reducer before it mounts the view tree, and mounts the view under a
\* Provider holding that store and not with the store as an explicit prop.
C12_OneStoreUnderProviderBeforeMount ==
    pc = "mounted"
    => /\ stores = 1
       /\ ProvidesStore(config.entry)
       /\ ~PassesStoreProp(config.entry)

\* The list held by a value a reducer returned: the items of a state object,
\* or the array itself where the reducer returned the bare array.
ResultList(h, ret) == IF IsArray(h, ret) THEN h[ret.v].elems ELSE ItemsOf(h, ret)

\* C13 as stated: each time the reducer is called (on a state with an items
\* list, with whatever action) it adds a new item to the list, and that item
\* is one more than the last item of the list (1 for an empty list).
C13_EveryCallAddsLastPlusOne ==
    (result.done /\ IsStateShape(result.before, call.state))
    => /\ ~result.threw
       /\ LET old == ItemsOf(result.before, call.state)
              next == IF old = << >> THEN 1 ELSE old[Len(old)] + 1
          IN ResultList(heap, result.ret) = Append(old, next)

\* C13, amended: the reducer adds a new item to the list each time it is
\* called with its increment action, and at no other call; the new item is
\* the previous length of the list plus one, which is one more than the last
\* item whenever the list is the counter's own 1, 2, ..., k with k >= 1.
C13_IncrementCallAddsLengthPlusOne ==
    (result.done /\ IsStateShape(result.before, call.state))
    => /\ ~result.threw
       /\ LET old == ItemsOf(result.before, call.state)
              new == ResultList(heap, result.ret)
          IN IF call.action.type = RecognizedType(config.reducer)
             THEN /\ new = Append(old, Len(old) + 1)
                  /\ (old # << >> /\ old = Counting(Len(old)))
                       => new[Len(new)] = old[Len(old)] + 1
             ELSE /\ result.ret = call.state
                  /\ new = old

\* C13's case: shoppingListReducer called on { items: [1, 2] } with its
\* increment action returned [1, 2, 3], the new item one more than the last.
C13_Witness ==
    /\ result.done
    /\ config.reducer = "shoppingListReducer"
    /\ call.action.type = CountIncrement
    /\ IsStateShape(result.before, call.state)
    /\ ItemsOf(result.before, call.state) = <<1, 2>>
    /\ ~result.threw
    /\ ResultList(heap, result.ret) = <<1, 2, 3>>

\* Every action in `as` has a type the named reducer does not recognize.
AllUnrecognized(name, as) ==
    \A i \in 1..Len(as) : as[i].type # RecognizedType(name)

\* C14: the default branch is idempotent: from any state of the data model,
\* after the reducer has been applied any number of times in a row with
\* unrecognized actions, the value is the very state the row started from and
\* its items are what they were, as after zero applications.
C14_DefaultBranchIdempotent ==
    (/\ IsStateShape(result.before, call.state)
     /\ AllUnrecognized(config.reducer, dispatched))
    => /\ pc = "fold"
       /\ currentState = call.state
       /\ IsStateShape(heap, currentState)
       /\ ItemsOf(heap, currentState) = ItemsOf(result.before, call.state)
       /\ heap = result.before

\* C14's case: three unrecognized actions in a row, of two different types,
\* applied from { items: [2, 0] }, which still holds [2, 0].
C14_Witness ==
    /\ pc = "fold"
    /\ Len(dispatched) = 3
    /\ AllUnrecognized(config.reducer, dispatched)
    /\ dispatched[1].type # dispatched[2].type
    /\ IsStateShape(result.before, call.state)
    /\ ItemsOf(result.before, call.state) = <<2, 0>>
    /\ ItemsOf(heap, currentState) = <<2, 0>>

\* C15: an increment never modifies its input in place: after
\* reduce(s, increment) every cell that existed before the call, the object s
\* and the array s.items among them, holds what it held before; the returned
\* value is a new cell distinct from s, and (where an object is returned) its
\* items is a new array distinct from s.items.
C15_IncrementLeavesInputIntact ==
    (/\ result.done
     /\ call.action.type = RecognizedType(config.reducer)
     /\ IsStateShape(result.before, call.state))
    => /\ ~result.threw
       /\ Len(heap) > Len(result.before)
       /\ \A a \in 1..Len(result.before) : heap[a] = result.before[a]
       /\ IsRef(heap, result.ret)
       /\ result.ret.v > Len(result.before)
       /\ result.ret # call.state
       /\ config.reducer \in ObjectReducers
            => /\ IsStateShape(heap, result.ret)
               /\ GetProp(heap, result.ret, "items").v > Len(result.before)
               /\ GetProp(heap, result.ret, "items")
                    # GetProp(result.before, call.state, "items")

\* C15's case: after an increment of s = { items: [1] } that returned
\* [1, 2], s.items still holds [1].
C15_Witness ==
    /\ result.done
    /\ call.action.type = RecognizedType(config.reducer)
    /\ IsStateShape(result.before, call.state)
    /\ ItemsOf(result.before, call.state) = <<1>>
    /\ ~result.threw
    /\ ResultList(heap, result.ret) = <<1, 2>>
    /\ ItemsOf(heap, call.state) = <<1>>

\* C17: the reducer's result depends only on the state and the action's type:
\* from the same state, an action with the type of the one called and any
\* other payload gives the same outcome (returned value, heap, raised or not)
\* as the call gave.
C17_ResultIgnoresPayload ==
    result.done
    => \A p \in 0..MaxPayload :
         LET other == Reduce(config.reducer, result.before, call.state,
                             Action(call.action.type, p))
         IN /\ other.threw = result.threw
            /\ other.ret = result.ret
            /\ other.heap = heap

\* C17's case: an increment carrying a payload, applied to { items: [1] },
\* returned [1, 2] as the increment without payload does.
C17_Witness ==
    /\ result.done
    /\ config.reducer = "counterReducer"
    /\ call.action = Action(CountIncrement, 1)
    /\ IsStateShape(result.before, call.state)
    /\ ItemsOf(result.before, call.state) = <<1>>
    /\ ~result.threw
    /\ ItemsOf(heap, result.ret) = <<1, 2>>

\* The reducer versions that write to the console.
LoggingReducers == {"counterReducer", "shoppingListItemReducerAssign"}

\* C18: in the logging version of the reducer every call first logs the
\* action, before branching on its type; the increment branch then logs the
\* current items length and the length it is updating to, and the default
\* branch logs the items length.
C18_LogsActionThenLengths ==
    (/\ result.done
     /\ config.reducer \in LoggingReducers
     /\ IsStateShape(result.before, call.state))
    => LET n == Len(ItemsOf(result.before, call.state))
       IN IF call.action.type = RecognizedType(config.reducer)
          THEN /\ Len(console) = 3
               /\ console[1] = LogAction(call.action)
               /\ console[2].n = Num(n)
               /\ console[3].n = Num(n + 1)
          ELSE /\ Len(console) = 2
               /\ console[1] = LogAction(call.action)
               /\ console[2].n = Num(n)

\* What a value is, apart from where it lives: for a state object its items
\* and its foreign key, for an array its elements, for anything else itself.
StateValue(h, val) ==
    IF IsStateShape(h, val)
    THEN [kind |-> "object", items |-> ItemsOf(h, val),
          other |-> GetProp(h, val, "other")]
    ELSE IF IsArray(h, val)
         THEN [kind |-> "array", items |-> h[val.v].elems, other |-> Undefined]
         ELSE [kind |-> val.t, items |-> << >>, other |-> Undefined]

\* The action type that stands for `type` when the reducer `from` is replaced
\* by the reducer `to`: the two increment type strings are exchanged where
\* the reducers recognize different ones.
IdentifiedType(type, from, to) ==
    IF RecognizedType(from) = RecognizedType(to) THEN type
    ELSE IF type = CountIncrement THEN IncreaseCount
         ELSE IF type = IncreaseCount THEN CountIncrement
              ELSE type

\* C19: counterReducer with logging, shoppingListReducer and the
\* shoppingListItemReducer versions with Object.assign and with object spread
\* compute the same next state for every state of the data model (or no
\* state) and every action, once their increment type strings are identified
\* with each other; logging changes no returned state.
C19_VariantsComputeSameState ==
    (/\ result.done
     /\ config.reducer \in ObjectReducers
     /\ (IsStateShape(result.before, call.state) \/ call.state = Undefined))
    => /\ ~result.threw
       /\ \A name \in ObjectReducers :
            LET h0 == IF call.state = Undefined THEN LoadedHeap(name)
                      ELSE result.before
                other == Reduce(name, h0, call.state,
                                Action(IdentifiedType(call.action.type,
                                                      config.reducer, name),
                                       call.action.payload))
            IN /\ ~other.threw
               /\ StateValue(other.heap, other.ret) = StateValue(heap, result.ret)

\* C19's case: the Object.assign version incremented { items: [1], other: 7 }
\* to { items: [1, 2], other: 7 }, as the logging counterReducer does with
\* its own increment type.
C19_Witness ==
    /\ result.done
    /\ config.reducer = "shoppingListItemReducerAssign"
    /\ call.action.type = IncreaseCount
    /\ IsStateShape(result.before, call.state)
    /\ StateValue(heap, result.ret)
         = [kind |-> "object", items |-> <<1, 2>>, other |-> Num(7)]
    /\ LET other == counterReducer(result.before, call.state,
                                   Action(CountIncrement, 0))
       IN StateValue(other.heap, other.ret) = StateValue(heap, result.ret)

\* C20: an increment changes only the items key: every other key present in
\* the input state is present in the returned state with the same value, and
\* the returned state has exactly the keys the input had.
C20_IncrementChangesOnlyItems ==
    (/\ result.done
     /\ config.reducer \in ObjectReducers
     /\ call.action.type = RecognizedType(config.reducer)
     /\ IsStateShape(result.before, call.state))
    => /\ ~result.threw
       /\ IsObject(heap, result.ret)
       /\ \A k \in Keys :
            LET old == result.before[call.state.v].props[k]
                new == heap[result.ret.v].props[k]
            IN /\ (new = Absent) <=> (old = Absent)
               /\ k # "items" => new = old

\* C20's case: an increment of { items: [1], other: 7 } returned an object
\* with items [1, 2] and other still 7.
C20_Witness ==
    /\ result.done
    /\ config.reducer = "shoppingListItemReducerSpread"
    /\ call.action.type = IncreaseCount
    /\ IsStateShape(result.before, call.state)
    /\ result.before[call.state.v].props["other"] = Num(7)
    /\ ItemsOf(result.before, call.state) = <<1>>
    /\ ~result.threw
    /\ heap[result.ret.v].props["other"] = Num(7)
    /\ ItemsOf(heap, result.ret) = <<1, 2>>

=============================================================================
